---------------------------- MODULE Spec2Model ----------------------------
(***************************************************************************)
(* Model of src/src/main.rs: ScalerizeClient, a synchronous client of a    *)
(* key-value store over a Unix stream socket.                              *)
(*                                                                         *)
(* Four specifications share the client's actions:                         *)
(*   Spec     the client against an arbitrary peer and an arbitrary caller *)
(*   SpecFair Spec with the running method and the answering peer fair,    *)
(*            and a peer that is silent while the drain runs               *)
(*   SpecKV   the client against a key-value server that keeps a PUT       *)
(*            pending until WRITE, driven by a caller that logs its calls  *)
(*   SpecLen  the request encoding with slices abstracted to their usize   *)
(*            length, so that lengths beyond 32 bits can be drawn          *)
(***************************************************************************)
EXTENDS Integers, Sequences, FiniteSets, TLC

VARIABLES
    pc,          \* where the client thread is
    op,          \* the method running, or the last one that returned
    store,       \* argument store_number of that call
    key,         \* argument key
    value,       \* argument value (put)
    request,     \* local `request`: the encoded frame
    sent,        \* bytes of `request` write_all has handed to the stream
    wire,        \* bytes the stream carried to the peer during this call
    flushed,     \* stream.flush() returned Ok in this call
    inbuf,       \* bytes the peer sent that the client has not read yet
    closed,      \* the peer closed its end
    blocking,    \* the socket's mode (O_NONBLOCK clear)
    response,    \* local `response` after truncate(n)
    nread,       \* n of the call's stream.read, -1 while none returned Ok
    reads,       \* response reads (read_full_response) issued by this call
    outstanding, \* requests fully written and not yet answered or failed
    result,      \* what the call returned
    served,      \* SpecKV: the server answered the current request
    pending,     \* SpecKV: server's uncommitted PUTs
    committed,   \* SpecKV: server's committed table
    trace,       \* SpecKV: the caller's log of the calls it made
    outcomes,    \* SpecKV: the caller's log of the earlier calls' results
    lframe,      \* SpecLen: the frame built from slices of given lengths
    drainRead,   \* how the drain's latest stream.read ended, "none" before one
    failed       \* some earlier call on this session returned an Err

vars == <<pc, op, store, key, value, request, sent, wire, flushed, inbuf,
          closed, blocking, response, nread, reads, outstanding, result,
          served, pending, committed, trace, outcomes, lframe, drainRead,
          failed>>

callVars   == <<op, store, key, value, request>>
kvVars     == <<served, pending, committed, trace, outcomes>>

-----------------------------------------------------------------------------
(* Program constants *)

OP_PUT == 1
OP_GET == 2
OP_DELETE == 3
OP_WRITE == 4
STATUS_SUCCESS == 1
STATUS_ERROR == 0
BUF_SIZE == 4096

(* Bounds and input samples *)

MaxPeerBytes == 3   \* bytes the peer sends within one call's window
MaxCalls == 3       \* SpecKV: calls the caller makes on one session

Stores == {0, 2}
Keys == {<<>>, <<1, 2, 3, 4>>}
Values == {<<>>, <<72, 105>>}
\* 0, 1: the two statuses (and ASCII); 195 169 is U+00E9; 195 or 169 alone
\* is invalid UTF-8
PeerBytes == {0, 1, 195, 169}
NotFoundMsg == <<110, 102>>

MinTakesAll(a, b) == a
Min(a, b) == IF a < b THEN a ELSE b

-----------------------------------------------------------------------------
(* Integer widths.  A usize is four 16-bit limbs, least significant first. *)

Limb == 256 * 256

UsizeOf(n) == <<n % Limb, (n \div Limb) % Limb, 0, 0>>

\* `x as u32`: the low 32 bits
AsU32(u) == <<u[1], u[2]>>

\* u32::to_be_bytes
U32ToLeBytes(w) == <<w[1] % 256, w[1] \div 256, w[2] % 256, w[2] \div 256>>
U32ToBeBytes(w) == <<w[2] \div 256, w[2] % 256, w[1] \div 256, w[1] % 256>>

\* u8::to_be_bytes
U8ToBeBytes(b) == <<b>>

\* key.len() as u32, to_be_bytes
LenField(u) == U32ToBeBytes(AsU32(u))

-----------------------------------------------------------------------------
(* Request encoding *)

EncodeGet(s, k) ==
    <<OP_GET>> \o U8ToBeBytes(s) \o LenField(UsizeOf(Len(k))) \o k

EncodePutKeyTwice(s, k, v) ==
    <<OP_PUT>> \o U8ToBeBytes(s) \o LenField(UsizeOf(Len(k))) \o k
               \o LenField(UsizeOf(Len(k))) \o k
EncodePutSkipsEmptyValue(s, k, v) ==
    <<OP_PUT>> \o U8ToBeBytes(s) \o LenField(UsizeOf(Len(k))) \o k
               \o (IF v = <<>> THEN <<>> ELSE LenField(UsizeOf(Len(v))) \o v)
EncodePut(s, k, v) ==
    <<OP_PUT>> \o U8ToBeBytes(s) \o LenField(UsizeOf(Len(k))) \o k
               \o LenField(UsizeOf(Len(v))) \o v

EncodeDelete(s, k) ==
    <<OP_DELETE>> \o U8ToBeBytes(s) \o LenField(UsizeOf(Len(k))) \o k

EncodeWrite == <<OP_WRITE>> \o U8ToBeBytes(0)

-----------------------------------------------------------------------------
(* String::from_utf8_lossy: code points, U+FFFD for each invalid chunk *)

REPLACEMENT == 65533

SafeGet(bs, i) == IF i <= Len(bs) THEN bs[i] ELSE 0

IsCont(b) == b \div 64 = 2

Utf8CharWidth(b) ==
    IF b < 128 THEN 1
    ELSE IF b >= 194 /\ b <= 223 THEN 2
    ELSE IF b >= 224 /\ b <= 239 THEN 3
    ELSE IF b >= 240 /\ b <= 244 THEN 4
    ELSE 0

SecondOk3(b, c) ==
    \/ b = 224 /\ c >= 160 /\ c <= 191
    \/ b >= 225 /\ b <= 236 /\ c >= 128 /\ c <= 191
    \/ b = 237 /\ c >= 128 /\ c <= 159
    \/ b >= 238 /\ b <= 239 /\ c >= 128 /\ c <= 191

SecondOk4(b, c) ==
    \/ b = 240 /\ c >= 144 /\ c <= 191
    \/ b >= 241 /\ b <= 243 /\ c >= 128 /\ c <= 191
    \/ b = 244 /\ c >= 128 /\ c <= 143

\* one step of the decoder at index i: the code point and the bytes consumed
DecodeAt(bs, i) ==
    LET b == bs[i]
        w == Utf8CharWidth(b)
        c1 == SafeGet(bs, i + 1)
        c2 == SafeGet(bs, i + 2)
        c3 == SafeGet(bs, i + 3)
        Bad(n) == [cp |-> REPLACEMENT, n |-> n]
    IN  CASE w = 1 -> [cp |-> b, n |-> 1]
          [] w = 2 -> IF IsCont(c1)
                      THEN [cp |-> (b - 192) * 64 + (c1 - 128), n |-> 2]
                      ELSE Bad(1)
          [] w = 3 -> IF ~SecondOk3(b, c1) THEN Bad(1)
                      ELSE IF ~IsCont(c2) THEN Bad(2)
                      ELSE [cp |-> (b - 224) * 4096 + (c1 - 128) * 64
                                   + (c2 - 128), n |-> 3]
          [] w = 4 -> IF ~SecondOk4(b, c1) THEN Bad(1)
                      ELSE IF ~IsCont(c2) THEN Bad(2)
                      ELSE IF ~IsCont(c3) THEN Bad(3)
                      ELSE [cp |-> (b - 240) * 262144 + (c1 - 128) * 4096
                                   + (c2 - 128) * 64 + (c3 - 128), n |-> 4]
          [] OTHER -> Bad(1)

RECURSIVE FromUtf8LossyFrom(_, _)
FromUtf8LossyFrom(bs, i) ==
    IF i > Len(bs) THEN <<>>
    ELSE LET d == DecodeAt(bs, i)
         IN  <<d.cp>> \o FromUtf8LossyFrom(bs, i + d.n)

FromUtf8Lossy(bs) == FromUtf8LossyFrom(bs, 1)

-----------------------------------------------------------------------------
(* Results: Result<_, ClientError>, and a panic *)

R(kind, why, st, bytes, text) ==
    [kind |-> kind, why |-> why, status |-> st, bytes |-> bytes, text |-> text]

NoResult == R("none", "", -1, <<>>, <<>>)
OkUnit == R("Ok", "", -1, <<>>, <<>>)
OkBytes(data) == R("Ok", "", -1, data, <<>>)
OperationFailed(text) == R("OperationFailed", "", -1, <<>>, text)
\* InvalidResponse("Empty response from server")
InvalidEmpty == R("InvalidResponse", "Empty response from server", -1, <<>>, <<>>)
\* InvalidResponse(format!("Unexpected status: {}, response: {:?}", ..))
InvalidStatus(st, data) == R("InvalidResponse", "Unexpected status", st, data, <<>>)
Io(why) == R("Io", why, -1, <<>>, <<>>)
Panic == R("Panic", "index out of bounds", -1, <<>>, <<>>)

-----------------------------------------------------------------------------
(* read_full_response after read and truncate(n): Err on an empty buffer *)

ReadFullResponseNoCheck(buf) == [isErr |-> FALSE, err |-> NoResult, val |-> buf]
ReadFullResponse(buf) ==
    IF buf = <<>>
    THEN [isErr |-> TRUE, err |-> InvalidEmpty, val |-> <<>>]
    ELSE [isErr |-> FALSE, err |-> NoResult, val |-> buf]

(* The status mapping of each method, on a non-empty response *)

GetResultKeepsStatus(resp) ==
    LET status == resp[1]
        data == resp
    IN  CASE status = STATUS_SUCCESS -> OkBytes(data)
          [] status = STATUS_ERROR -> OperationFailed(FromUtf8Lossy(Tail(resp)))
          [] OTHER -> InvalidStatus(status, Tail(resp))
GetResultErrorAsInvalid(resp) ==
    LET status == resp[1]
        data == Tail(resp)
    IN  CASE status = STATUS_SUCCESS -> OkBytes(data)
          [] OTHER -> InvalidStatus(status, data)
GetResult(resp) ==
    LET status == resp[1]
        data == Tail(resp)
    IN  CASE status = STATUS_SUCCESS -> OkBytes(data)
          [] status = STATUS_ERROR -> OperationFailed(FromUtf8Lossy(data))
          [] OTHER -> InvalidStatus(status, data)

PutResultIgnoresStatus(resp) == OkUnit
PutResult(resp) ==
    IF resp[1] = STATUS_ERROR
    THEN OperationFailed(FromUtf8Lossy(Tail(resp)))
    ELSE OkUnit

DeleteResult(resp) ==
    LET status == resp[1]
        data == Tail(resp)
    IN  CASE status = STATUS_SUCCESS -> OkUnit
          [] status = STATUS_ERROR -> OperationFailed(FromUtf8Lossy(data))
          [] OTHER -> InvalidStatus(status, data)

WriteResult(resp) ==
    LET status == resp[1]
        data == Tail(resp)
    IN  CASE status = STATUS_SUCCESS -> OkUnit
          [] status = STATUS_ERROR -> OperationFailed(FromUtf8Lossy(data))
          [] OTHER -> InvalidStatus(status, data)

\* `response[0]` panics on an empty vector
StatusResult(o, resp) ==
    IF resp = <<>> THEN Panic
    ELSE CASE o = "get" -> GetResult(resp)
           [] o = "put" -> PutResult(resp)
           [] o = "delete" -> DeleteResult(resp)
           [] OTHER -> WriteResult(resp)

\* `let response = self.read_full_response()?;` and the match that follows
AfterRead(o, buf) ==
    LET r == ReadFullResponse(buf)
    IN  IF r.isErr THEN r.err ELSE StatusResult(o, r.val)

-----------------------------------------------------------------------------
(* The key-value server of SpecKV *)

\* a table is a set of entries, at most one for a store and key
Entry(s, k, v) == [store |-> s, key |-> k, value |-> v]

Held(t, s, k) == {e \in t : e.store = s /\ e.key = k}

Without(t, s, k) == t \ Held(t, s, k)

BeValue(b) == ((b[1] * 256 + b[2]) * 256 + b[3]) * 256 + b[4]

\* the frame layout read back: complete only when every field is there
ParseRequest(bs) ==
    LET bad == [complete |-> FALSE, op |-> 0, store |-> 0, key |-> <<>>, value |-> <<>>]
    IN  IF Len(bs) < 2 THEN bad
        ELSE IF bs[1] = OP_WRITE
        THEN [complete |-> TRUE, op |-> OP_WRITE, store |-> bs[2], key |-> <<>>, value |-> <<>>]
        ELSE IF Len(bs) < 6 THEN bad
        ELSE LET kl == BeValue(SubSeq(bs, 3, 6))
             IN  IF Len(bs) < 6 + kl THEN bad
                 ELSE IF bs[1] # OP_PUT
                 THEN [complete |-> TRUE, op |-> bs[1], store |-> bs[2],
                       key |-> SubSeq(bs, 7, 6 + kl), value |-> <<>>]
                 ELSE IF Len(bs) < 10 + kl THEN bad
                 ELSE LET vl == BeValue(SubSeq(bs, 7 + kl, 10 + kl))
                      IN  IF Len(bs) < 10 + kl + vl THEN bad
                          ELSE [complete |-> TRUE, op |-> OP_PUT, store |-> bs[2],
                                key |-> SubSeq(bs, 7, 6 + kl),
                                value |-> SubSeq(bs, 11 + kl, 10 + kl + vl)]

\* the committed table after WRITE: every pending PUT becomes visible
Commit(c, p) == {e \in c : Held(p, e.store, e.key) = {}} \cup p


-----------------------------------------------------------------------------
(* Initial state: a connected session (connect returned Ok) *)

NoFrame == [built |-> FALSE, op |-> 0, store |-> 0,
            keyLenField |-> <<>>, keyCount |-> <<0, 0, 0, 0>>,
            valLenField |-> <<>>, valCount |-> <<0, 0, 0, 0>>]

Init ==
    /\ pc = "idle"
    /\ op = "none"
    /\ store = 0
    /\ key = <<>>
    /\ value = <<>>
    /\ request = <<>>
    /\ sent = 0
    /\ wire = <<>>
    /\ flushed = FALSE
    /\ inbuf = <<>>
    /\ closed = FALSE
    /\ blocking = TRUE
    /\ response = <<>>
    /\ nread = -1
    /\ reads = 0
    /\ outstanding = 0
    /\ result = NoResult
    /\ served = FALSE
    /\ pending = {}
    /\ committed = {}
    /\ trace = <<>>
    /\ outcomes = <<>>
    /\ lframe = NoFrame
    /\ drainRead = "none"
    /\ failed = FALSE

-----------------------------------------------------------------------------
(* The four methods up to write_all: the request is built, nothing sent.   *)
(* `&mut self` admits one call at a time: a call starts only from idle.    *)

BeginCallRefusesAfterError(o, s, k, v, req) ==
    /\ pc = "idle"
    /\ ~failed
    /\ op' = o
    /\ store' = s
    /\ key' = k
    /\ value' = v
    /\ request' = req
    /\ sent' = 0
    /\ wire' = <<>>
    /\ flushed' = FALSE
    /\ response' = <<>>
    /\ nread' = -1
    /\ reads' = 0
    /\ pc' = "sending"
    /\ result' = NoResult
    /\ drainRead' = "none"
    /\ UNCHANGED <<inbuf, closed, blocking, outstanding, lframe, failed>>
BeginCall(o, s, k, v, req) ==
    /\ pc = "idle"
    /\ pc' = "sending"
    /\ op' = o
    /\ store' = s
    /\ key' = k
    /\ value' = v
    /\ request' = req
    /\ sent' = 0
    /\ wire' = <<>>
    /\ flushed' = FALSE
    /\ response' = <<>>
    /\ nread' = -1
    /\ reads' = 0
    /\ result' = NoResult
    /\ drainRead' = "none"
    /\ UNCHANGED <<inbuf, closed, blocking, outstanding, lframe, failed>>

Get(s, k) == BeginCall("get", s, k, <<>>, EncodeGet(s, k))

PutCommits(s, k, v) ==
    BeginCall("put", s, k, v, EncodePut(s, k, v) \o EncodeWrite)
Put(s, k, v) == BeginCall("put", s, k, v, EncodePut(s, k, v))

Delete(s, k) == BeginCall("delete", s, k, <<>>, EncodeDelete(s, k))

Write == BeginCall("write", 0, <<>>, <<>>, EncodeWrite)

(* write_all: loops over partial writes until the whole frame is taken *)

WriteAllDoneEarly(req, n) == n >= 1
WriteAllDone(req, n) == n = Len(req)

\* what one write(2) may accept of `rem` remaining bytes
ChunkSizes(rem) == {rem, (rem + 1) \div 2}

WriteChunk ==
    /\ pc = "sending"
    /\ sent < Len(request)
    /\ \E n \in ChunkSizes(Len(request) - sent) :
          /\ sent' = sent + n
          /\ wire' = wire \o SubSeq(request, sent + 1, sent + n)
          /\ IF WriteAllDone(request, sent + n)
             THEN pc' = "flushing" /\ outstanding' = outstanding + 1
             ELSE pc' = "sending" /\ outstanding' = outstanding
    /\ UNCHANGED <<callVars, flushed, inbuf, closed, blocking, response,
                   nread, reads, result, kvVars, lframe, drainRead, failed>>

WriteFailRetries ==
    /\ pc = "sending"
    /\ sent < Len(request)
    /\ sent' = 0
    /\ UNCHANGED <<pc, callVars, wire, flushed, inbuf, closed, blocking,
                   response, nread, reads, outstanding, result, kvVars,
                   lframe, drainRead, failed>>
\* write_all returns Err: `?` returns ClientError::Io
WriteFail ==
    /\ pc = "sending"
    /\ sent < Len(request)
    /\ pc' = "idle"
    /\ result' = Io("write")
    /\ failed' = TRUE
    /\ UNCHANGED <<callVars, sent, wire, flushed, inbuf, closed, blocking,
                   response, nread, reads, outstanding, kvVars, lframe,
                   drainRead>>

\* UnixStream's flush does nothing and returns Ok(())
Flush ==
    /\ pc = "flushing"
    /\ pc' = "reading"
    /\ flushed' = TRUE
    /\ UNCHANGED <<callVars, sent, wire, inbuf, closed, blocking, response,
                   nread, reads, outstanding, result, kvVars, lframe,
                   drainRead, failed>>

(* read_full_response: one read into a 4096-byte buffer, then the match *)

ErrorKinds == {"Io", "OperationFailed", "InvalidResponse"}

Returned(res) ==
    /\ result' = res
    /\ pc' = IF res.kind = "Panic" THEN "panicked" ELSE "idle"
    /\ outstanding' = outstanding - 1
    /\ reads' = reads + 1
    /\ failed' = (failed \/ res.kind \in ErrorKinds)
    /\ UNCHANGED drainRead

\* read returns Ok(n) with n > 0
ReadData ==
    /\ pc = "reading"
    /\ inbuf # <<>>
    /\ LET n == Min(Len(inbuf), BUF_SIZE)
           buf == SubSeq(inbuf, 1, n)
       IN  /\ nread' = n
           /\ response' = buf
           /\ inbuf' = SubSeq(inbuf, n + 1, Len(inbuf))
           /\ Returned(AfterRead(op, buf))
    /\ UNCHANGED <<callVars, sent, wire, flushed, closed, blocking, kvVars,
                   lframe>>

\* read returns Ok(0): the peer closed and nothing is buffered
ReadEof ==
    /\ pc = "reading"
    /\ inbuf = <<>>
    /\ closed
    /\ nread' = 0
    /\ response' = <<>>
    /\ Returned(AfterRead(op, <<>>))
    /\ UNCHANGED <<callVars, sent, wire, flushed, inbuf, closed, blocking,
                   kvVars, lframe>>

\* read returns Err(WouldBlock): nothing buffered on a non-blocking socket
ReadWouldBlock ==
    /\ pc = "reading"
    /\ inbuf = <<>>
    /\ ~closed
    /\ ~blocking
    /\ Returned(Io("WouldBlock"))
    /\ UNCHANGED <<callVars, sent, wire, flushed, inbuf, closed, blocking,
                   response, nread, kvVars, lframe>>

\* read returns any other Err
ReadFail ==
    /\ pc = "reading"
    /\ Returned(Io("read"))
    /\ UNCHANGED <<callVars, sent, wire, flushed, inbuf, closed, blocking,
                   response, nread, kvVars, lframe>>

-----------------------------------------------------------------------------
(* check_additional_messages *)

DrainEnter ==
    /\ pc = "idle"
    /\ op' = "drain"
    /\ store' = 0
    /\ key' = <<>>
    /\ value' = <<>>
    /\ request' = <<>>
    /\ sent' = 0
    /\ wire' = <<>>
    /\ flushed' = FALSE
    /\ response' = <<>>
    /\ nread' = -1
    /\ reads' = 0
    /\ result' = NoResult
    /\ drainRead' = "none"
    /\ UNCHANGED <<inbuf, closed, outstanding, kvVars, lframe, failed>>

\* set_nonblocking(true) returns Ok
DrainSetNonblocking ==
    /\ DrainEnter
    /\ blocking' = FALSE
    /\ pc' = "drain_loop"

\* set_nonblocking(true) returns Err: printed by unwrap_or_else, mode kept
DrainSetNonblockingFail ==
    /\ DrainEnter
    /\ blocking' = blocking
    /\ pc' = "drain_loop"

DrainKeep == UNCHANGED <<callVars, sent, wire, flushed, closed, response,
                         nread, reads, outstanding, result, kvVars, lframe,
                         failed>>

\* Ok(n) if n > 0: printed, loop again
DrainReadData ==
    /\ pc = "drain_loop"
    /\ inbuf # <<>>
    /\ inbuf' = SubSeq(inbuf, Min(Len(inbuf), BUF_SIZE) + 1, Len(inbuf))
    /\ UNCHANGED <<pc, blocking>>
    /\ drainRead' = "data"
    /\ DrainKeep

\* Ok(_): break
DrainReadEof ==
    /\ pc = "drain_loop"
    /\ inbuf = <<>>
    /\ closed
    /\ pc' = "drain_restore"
    /\ UNCHANGED <<inbuf, blocking>>
    /\ drainRead' = "eof"
    /\ DrainKeep

\* Err(WouldBlock): break
DrainReadWouldBlock ==
    /\ pc = "drain_loop"
    /\ inbuf = <<>>
    /\ ~closed
    /\ ~blocking
    /\ pc' = "drain_restore"
    /\ UNCHANGED <<inbuf, blocking>>
    /\ drainRead' = "wouldblock"
    /\ DrainKeep

DrainReadErrorContinues ==
    /\ pc = "drain_loop"
    /\ UNCHANGED <<pc, inbuf, blocking>>
    /\ drainRead' = "error"
    /\ DrainKeep
\* Err(e): break
DrainReadError ==
    /\ pc = "drain_loop"
    /\ pc' = "drain_restore"
    /\ UNCHANGED <<inbuf, blocking>>
    /\ drainRead' = "error"
    /\ DrainKeep

\* set_nonblocking(false) returns Ok; the method returns ()
DrainRestore ==
    /\ pc = "drain_restore"
    /\ blocking' = TRUE
    /\ pc' = "idle"
    /\ result' = OkUnit
    /\ UNCHANGED <<callVars, sent, wire, flushed, inbuf, closed, response,
                   nread, reads, outstanding, kvVars, lframe, drainRead,
                   failed>>

\* set_nonblocking(false) returns Err: printed, the method returns ()
DrainRestoreFail ==
    /\ pc = "drain_restore"
    /\ blocking' = blocking
    /\ pc' = "idle"
    /\ result' = OkUnit
    /\ UNCHANGED <<callVars, sent, wire, flushed, inbuf, closed, response,
                   nread, reads, outstanding, kvVars, lframe, drainRead,
                   failed>>

-----------------------------------------------------------------------------
(* Spec: any caller, any peer *)

UserGet == \E s \in Stores, k \in Keys : Get(s, k) /\ UNCHANGED kvVars

UserPut == \E s \in Stores, k \in Keys, v \in Values :
               Put(s, k, v) /\ UNCHANGED kvVars

UserDelete == \E s \in Stores, k \in Keys : Delete(s, k) /\ UNCHANGED kvVars

UserWrite == Write /\ UNCHANGED kvVars

PeerKeep == UNCHANGED <<pc, callVars, sent, wire, flushed, blocking,
                        response, nread, reads, outstanding, result, kvVars,
                        lframe, drainRead, failed>>

PeerSend ==
    /\ pc # "panicked"
    /\ ~closed
    /\ Len(response) + Len(inbuf) < MaxPeerBytes
    /\ \E b \in PeerBytes : inbuf' = Append(inbuf, b)
    /\ UNCHANGED closed
    /\ PeerKeep

\* the peer answers with one frame longer than the client's read buffer:
\* a success status followed by BUF_SIZE payload bytes
LongFrame == <<STATUS_SUCCESS>> \o [i \in 1..BUF_SIZE |-> 0]

PeerSendLong ==
    /\ pc # "panicked"
    /\ ~closed
    /\ inbuf = <<>>
    /\ response = <<>>
    /\ inbuf' = LongFrame
    /\ UNCHANGED closed
    /\ PeerKeep

PeerClose ==
    /\ pc # "panicked"
    /\ ~closed
    /\ closed' = TRUE
    /\ UNCHANGED inbuf
    /\ PeerKeep

Next ==
    \/ UserGet
    \/ UserPut
    \/ UserDelete
    \/ UserWrite
    \/ WriteChunk
    \/ WriteFail
    \/ Flush
    \/ ReadData
    \/ ReadEof
    \/ ReadWouldBlock
    \/ ReadFail
    \/ DrainSetNonblocking
    \/ DrainSetNonblockingFail
    \/ DrainReadData
    \/ DrainReadEof
    \/ DrainReadWouldBlock
    \/ DrainReadError
    \/ DrainRestore
    \/ DrainRestoreFail
    \/ PeerSend
    \/ PeerSendLong
    \/ PeerClose

Spec == Init /\ [][Next]_vars

(* SpecFair: the same session where the code keeps running and the peer    *)
(* behaves as the termination properties suppose: a call that has started  *)
(* goes on to its next stream operation, the peer takes the request bytes  *)
(* and answers or closes while a response read waits, and it sends         *)
(* nothing while check_additional_messages runs.  A stream operation may   *)
(* still fail at any time.                                                 *)
DrainPcs == {"drain_loop", "drain_restore"}

QuietPeerSend == pc \notin DrainPcs /\ PeerSend

QuietPeerSendLong == pc \notin DrainPcs /\ PeerSendLong

\* the next statement of the method that is running
ClientStep ==
    \/ WriteChunk
    \/ Flush
    \/ ReadData
    \/ ReadEof
    \/ ReadWouldBlock
    \/ DrainReadData
    \/ DrainReadEof
    \/ DrainReadWouldBlock
    \/ DrainRestore
    \/ DrainRestoreFail

\* the peer sends a byte or closes while the response read waits
PeerAnswers == pc = "reading" /\ inbuf = <<>> /\ (PeerSend \/ PeerClose)

NextFair ==
    \/ UserGet
    \/ UserPut
    \/ UserDelete
    \/ UserWrite
    \/ WriteChunk
    \/ WriteFail
    \/ Flush
    \/ ReadData
    \/ ReadEof
    \/ ReadWouldBlock
    \/ ReadFail
    \/ DrainSetNonblocking
    \/ DrainSetNonblockingFail
    \/ DrainReadData
    \/ DrainReadEof
    \/ DrainReadWouldBlock
    \/ DrainReadError
    \/ DrainRestore
    \/ DrainRestoreFail
    \/ QuietPeerSend
    \/ QuietPeerSendLong
    \/ PeerClose

SpecFair ==
    /\ Init
    /\ [][NextFair]_vars
    /\ WF_vars(ClientStep)
    /\ WF_vars(PeerAnswers)


-----------------------------------------------------------------------------
(* SpecKV: main's and bench_full_cycle's use of one session, any calls from *)
(* the samples in any order, against the key-value server.  The transport  *)
(* is reliable and the server answers each request with one frame.         *)

Call(o, s, k, v) == [op |-> o, store |-> s, key |-> k, value |-> v]

\* the caller notes the call it makes and the result of the one before
Log(c) ==
    /\ Len(trace) < MaxCalls
    /\ trace' = Append(trace, c)
    /\ outcomes' = IF trace = <<>> THEN <<>> ELSE Append(outcomes, result.kind)
    /\ served' = FALSE
    /\ UNCHANGED <<pending, committed>>

MainGet == \E s \in Stores, k \in Keys :
               Get(s, k) /\ Log(Call("get", s, k, <<>>))

MainPut == \E s \in Stores, k \in Keys, v \in Values :
               Put(s, k, v) /\ Log(Call("put", s, k, v))

MainDelete == \E s \in Stores, k \in Keys :
                  Delete(s, k) /\ Log(Call("delete", s, k, <<>>))

MainWrite == Write /\ Log(Call("write", 0, <<>>, <<>>))

\* the server has the whole frame of the current call and has not answered
Arrived(o) ==
    /\ pc \in {"sending", "flushing", "reading"}
    /\ ~served
    /\ ParseRequest(wire).complete
    /\ ParseRequest(wire).op = o

Answer(frame) ==
    /\ served' = TRUE
    /\ inbuf' = inbuf \o frame
    /\ UNCHANGED <<pc, callVars, sent, wire, flushed, closed, blocking,
                   response, nread, reads, outstanding, result, trace,
                   outcomes, lframe, drainRead, failed>>

ServerPut ==
    /\ Arrived(OP_PUT)
    /\ LET q == ParseRequest(wire)
       IN  pending' = Without(pending, q.store, q.key)
                          \cup {Entry(q.store, q.key, q.value)}
    /\ UNCHANGED committed
    /\ Answer(<<STATUS_SUCCESS>>)

ServerGet ==
    /\ Arrived(OP_GET)
    /\ LET q == ParseRequest(wire)
           hit == Held(committed, q.store, q.key)
       IN  IF hit = {}
           THEN Answer(<<STATUS_ERROR>> \o NotFoundMsg)
           ELSE \E e \in hit : Answer(<<STATUS_SUCCESS>> \o e.value)
    /\ UNCHANGED <<pending, committed>>

ServerDelete ==
    /\ Arrived(OP_DELETE)
    /\ LET q == ParseRequest(wire)
       IN  /\ pending' = Without(pending, q.store, q.key)
           /\ committed' = Without(committed, q.store, q.key)
           /\ IF Held(pending, q.store, q.key) \cup Held(committed, q.store, q.key) = {}
              THEN Answer(<<STATUS_ERROR>> \o NotFoundMsg)
              ELSE Answer(<<STATUS_SUCCESS>>)

ServerWrite ==
    /\ Arrived(OP_WRITE)
    /\ committed' = Commit(committed, pending)
    /\ pending' = {}
    /\ Answer(<<STATUS_SUCCESS>>)

NextKV ==
    \/ MainGet
    \/ MainPut
    \/ MainDelete
    \/ MainWrite
    \/ WriteChunk
    \/ Flush
    \/ ReadData
    \/ ServerPut
    \/ ServerGet
    \/ ServerDelete
    \/ ServerWrite

SpecKV == Init /\ [][NextKV]_vars

-----------------------------------------------------------------------------
(* SpecLen: the frames get, put and delete build, for slices of any usize   *)
(* length.  A slice is its length; extend_from_slice appends that many     *)
(* bytes.                                                                  *)

\* 0, 1, 4, 2^16, 2^32 - 1, 2^32, 2^32 + 4, 2^48 + 1
LenSamples == {<<0, 0, 0, 0>>, <<1, 0, 0, 0>>, <<4, 0, 0, 0>>, <<0, 1, 0, 0>>,
               <<65535, 65535, 0, 0>>, <<0, 0, 1, 0>>, <<4, 0, 1, 0>>,
               <<1, 0, 0, 1>>}

Zero == <<0, 0, 0, 0>>

KeyFrame(o, s, kl) ==
    [built |-> TRUE, op |-> o, store |-> s,
     keyLenField |-> LenField(kl), keyCount |-> kl,
     valLenField |-> <<>>, valCount |-> Zero]

PutFrame(s, kl, vl) ==
    [built |-> TRUE, op |-> OP_PUT, store |-> s,
     keyLenField |-> LenField(kl), keyCount |-> kl,
     valLenField |-> LenField(vl), valCount |-> vl]

LenKeep == UNCHANGED <<pc, callVars, sent, wire, flushed, inbuf, closed,
                       blocking, response, nread, reads, outstanding, result,
                       kvVars, drainRead, failed>>

LenGet ==
    /\ ~lframe.built
    /\ \E s \in Stores, kl \in LenSamples : lframe' = KeyFrame(OP_GET, s, kl)
    /\ LenKeep

LenPut ==
    /\ ~lframe.built
    /\ \E s \in Stores, kl \in LenSamples, vl \in LenSamples :
          lframe' = PutFrame(s, kl, vl)
    /\ LenKeep

LenDelete ==
    /\ ~lframe.built
    /\ \E s \in Stores, kl \in LenSamples : lframe' = KeyFrame(OP_DELETE, s, kl)
    /\ LenKeep

\* the request is dropped when the method returns
LenDrop ==
    /\ lframe.built
    /\ lframe' = NoFrame
    /\ LenKeep

NextLen == LenGet \/ LenPut \/ LenDelete \/ LenDrop

SpecLen == Init /\ [][NextLen]_vars


-----------------------------------------------------------------------------
(* Properties *)

Methods == {"get", "put", "delete", "write"}

\* a method returned after its read gave n > 0 bytes
Answered == pc = "idle" /\ op \in Methods /\ nread > 0

(* C1: for put, get, delete and write, a non-empty response whose status   *)
(* byte is neither 0 nor 1 makes the call return InvalidResponse; none     *)
(* returns success for it.                                                 *)
UnknownStatusIsProtocolError ==
    (Answered /\ response[1] \notin {STATUS_ERROR, STATUS_SUCCESS})
        => result.kind = "InvalidResponse"

(* C2: when the bytes of get's one read start with status 1, get returns   *)
(* Ok with exactly the bytes after the first, same content, order, length. *)
GetReturnsPayloadVerbatim ==
    (Answered /\ op = "get" /\ response[1] = STATUS_SUCCESS)
        => /\ result.kind = "Ok"
           /\ Len(response) = nread
           /\ Len(result.bytes) = nread - 1
           /\ \A i \in 1..(nread - 1) : result.bytes[i] = response[i + 1]

GetReturnsPayloadWitness ==
    /\ Answered
    /\ op = "get"
    /\ response = <<1, 195, 0>>
    /\ result.kind = "Ok"
    /\ result.bytes = <<195, 0>>

(* C3: for put, get, delete and write, a response with status byte 0 makes *)
(* the call return OperationFailed whose message is the payload decoded as *)
(* text (invalid sequences replaced); never Ok, Io or InvalidResponse.     *)
ErrorStatusIsOperationFailed ==
    (Answered /\ response[1] = STATUS_ERROR)
        => /\ result = OperationFailed(FromUtf8Lossy(Tail(response)))
           /\ Tail(response) = <<195, 169>> => result.text = <<233>>
           /\ Tail(response) = <<169, 195>> => result.text = <<65533, 65533>>
           /\ Tail(response) = <<1, 0>> => result.text = <<1, 0>>

ErrorStatusWitness ==
    /\ Answered
    /\ op = "put"
    /\ response = <<0, 195, 169>>
    /\ result.kind = "OperationFailed"
    /\ result.text = <<233>>

(* C4: when the response read returns zero bytes the call returns the      *)
(* empty-response InvalidResponse; index 0 of an empty buffer is never     *)
(* read, so the client never panics.                                       *)
EmptyResponseIsProtocolError ==
    /\ pc # "panicked"
    /\ result.kind # "Panic"
    /\ (pc = "idle" /\ op \in Methods /\ nread = 0) => result = InvalidEmpty

EmptyResponseWitness ==
    /\ pc = "idle"
    /\ op = "get"
    /\ reads = 1
    /\ nread = 0
    /\ result.kind = "InvalidResponse"
    /\ result.why = "Empty response from server"

(* C5: the bytes a call writes are exactly the wire layout of its          *)
(* operation, lengths as 4 big-endian bytes; nothing precedes or follows.  *)
Be4(n) == <<n \div 16777216, (n \div 65536) % 256, (n \div 256) % 256, n % 256>>

WireLayout ==
    CASE op = "put" -> <<1, store>> \o Be4(Len(key)) \o key
                                    \o Be4(Len(value)) \o value
      [] op = "get" -> <<2, store>> \o Be4(Len(key)) \o key
      [] op = "delete" -> <<3, store>> \o Be4(Len(key)) \o key
      [] op = "write" -> <<4, 0>>
      [] OTHER -> <<>>

WrittenBytesAreLayout ==
    /\ sent <= Len(WireLayout)
    /\ wire = SubSeq(WireLayout, 1, sent)
    /\ pc \in {"flushing", "reading"} => wire = WireLayout
    /\ (pc = "idle" /\ flushed) => wire = WireLayout

WrittenBytesWitness ==
    /\ pc = "reading"
    /\ op = "put"
    /\ store = 2
    /\ key = <<1, 2, 3, 4>>
    /\ value = <<72, 105>>
    /\ wire = <<1, 2, 0, 0, 0, 4, 1, 2, 3, 4, 0, 0, 0, 2, 72, 105>>

(* C6: a call moves Idle, Sending, AwaitingResponse, Idle in that order:   *)
(* the whole frame is written and flushed before the response read is      *)
(* issued, one response read is issued per request written, and at most    *)
(* one request is outstanding at any time.                                 *)
Phase(p) ==
    CASE p = "idle" -> "Idle"
      [] p \in {"sending", "flushing"} -> "Sending"
      [] p = "reading" -> "AwaitingResponse"
      [] OTHER -> "Other"

PhaseInv ==
    /\ outstanding \in {0, 1}
    /\ Phase(pc) = "Idle" => outstanding = 0
    /\ pc = "sending" => outstanding = 0 /\ reads = 0 /\ ~flushed
    /\ pc = "flushing" => reads = 0 /\ ~flushed
    /\ pc = "reading" => /\ wire = request
                         /\ sent = Len(request)
                         /\ flushed
                         /\ reads = 0
                         /\ outstanding = 1
    /\ (pc = "idle" /\ op \in Methods) =>
           reads = (IF sent = Len(request) THEN 1 ELSE 0)

PhaseStep ==
    /\ Phase(pc) = "Idle" => Phase(pc') \in {"Idle", "Sending", "Other"}
    /\ Phase(pc) = "Sending" => Phase(pc') \in {"Sending", "AwaitingResponse", "Idle"}
    /\ Phase(pc) = "AwaitingResponse" => Phase(pc') \in {"AwaitingResponse", "Idle"}
    /\ reads' # reads => \/ pc = "reading" /\ reads' = reads + 1
                         \/ pc = "idle" /\ reads' = 0
    /\ wire' # wire => pc \in {"idle", "sending"}

SessionOrder == []PhaseInv /\ [][PhaseStep]_vars

SessionOrderWitness ==
    /\ pc = "idle"
    /\ op = "delete"
    /\ key = <<1, 2, 3, 4>>
    /\ wire = request
    /\ flushed
    /\ reads = 1
    /\ result.kind = "Ok"

(* C7: whenever check_additional_messages returns, the transport is in     *)
(* blocking mode, on every exit path, a failed mode switch included.       *)
DrainRestoresBlocking == (pc = "idle" /\ op = "drain") => blocking

(* C8: against a server that keeps a PUT pending until WRITE and answers   *)
(* with one frame per request, put(store,key,value), write(),              *)
(* get(store,key) on one session, all succeeding, makes get return exactly *)
(* the bytes given to put.                                                 *)
PutWriteGetDone ==
    /\ pc = "idle"
    /\ Len(trace) >= 3
    /\ LET n == Len(trace)
       IN  /\ trace[n].op = "get"
           /\ trace[n - 1].op = "write"
           /\ trace[n - 2].op = "put"
           /\ trace[n].store = trace[n - 2].store
           /\ trace[n].key = trace[n - 2].key
           /\ outcomes[n - 2] = "Ok"
           /\ outcomes[n - 1] = "Ok"
           /\ result.kind = "Ok"

PutWriteGetReturnsValue ==
    PutWriteGetDone => result.bytes = trace[Len(trace) - 2].value

PutWriteGetWitness ==
    /\ PutWriteGetDone
    /\ trace[Len(trace) - 2].key = <<1, 2, 3, 4>>
    /\ result.bytes = <<72, 105>>

(* C9: a get for a store and key the server does not hold, never PUT or    *)
(* DELETEd before, answered with a status-0 frame, returns                 *)
(* OperationFailed, never InvalidResponse and never Io.                    *)
SameSlot(c, d) == c.store = d.store /\ c.key = d.key

NeverPut(n) ==
    \A i \in 1..(n - 1) : ~(trace[i].op = "put" /\ SameSlot(trace[i], trace[n]))

DeletedBefore(n) ==
    \E i \in 1..(n - 1) :
        /\ trace[i].op = "delete"
        /\ SameSlot(trace[i], trace[n])
        /\ outcomes[i] = "Ok"
        /\ \A j \in (i + 1)..(n - 1) :
               ~(trace[j].op = "put" /\ SameSlot(trace[j], trace[n]))

GetOfAbsentAnswered ==
    /\ pc = "idle"
    /\ trace # <<>>
    /\ trace[Len(trace)].op = "get"
    /\ NeverPut(Len(trace)) \/ DeletedBefore(Len(trace))
    /\ nread > 0
    /\ response[1] = STATUS_ERROR

GetOfAbsentIsApplicationError ==
    GetOfAbsentAnswered => result.kind = "OperationFailed"

GetOfAbsentWitness ==
    /\ GetOfAbsentAnswered
    /\ Len(trace) = 3
    /\ trace[1].op = "put"
    /\ DeletedBefore(3)
    /\ result.kind = "OperationFailed"
    /\ result.text = NotFoundMsg

(* C10: a key or value longer than 2^32 - 1 bytes is never encoded: the    *)
(* length field of every frame built equals the number of key or value     *)
(* bytes that follow it (no wrap-around modulo 2^32).                      *)
\* u32::from_be_bytes, widened to usize
FieldValue(b) == <<b[3] * 256 + b[4], b[1] * 256 + b[2], 0, 0>>

LengthFieldExact ==
    lframe.built =>
        /\ FieldValue(lframe.keyLenField) = lframe.keyCount
        /\ lframe.op = OP_PUT => FieldValue(lframe.valLenField) = lframe.valCount


(* C11: parsing the frame written by put per the PUT layout gives back the *)
(* store id, key and value put was called with, empty ones included; no    *)
(* other store id, key and value encode to the same frame; for an empty    *)
(* value the frame ends with the four bytes of a value length of 0 and     *)
(* nothing after them, and the frame cut before that field does not parse  *)
(* as a PUT.                                                               *)
\* put has handed its whole frame to the stream
PutFrameWritten == op = "put" /\ pc \in {"flushing", "reading"}

PutParsesBack ==
    LET q == ParseRequest(wire)
    IN  /\ q.complete
        /\ q.op = OP_PUT
        /\ q.store = store
        /\ q.key = key
        /\ q.value = value

PutInjective ==
    \A s \in Stores, k \in Keys, v \in Values :
        EncodePut(s, k, v) = wire => <<s, k, v>> = <<store, key, value>>

PutEmptyValueEnd ==
    value = <<>> =>
        /\ Len(wire) = 10 + Len(key)
        /\ SubSeq(wire, Len(wire) - 3, Len(wire)) = <<0, 0, 0, 0>>
        /\ ~ParseRequest(SubSeq(wire, 1, Len(wire) - 4)).complete

PutRoundTrip ==
    PutFrameWritten => PutParsesBack /\ PutInjective /\ PutEmptyValueEnd

PutRoundTripWitness ==
    /\ PutFrameWritten
    /\ store = 2
    /\ key = <<1, 2, 3, 4>>
    /\ value = <<>>
    /\ wire = <<1, 2, 0, 0, 0, 4, 1, 2, 3, 4, 0, 0, 0, 0>>

(* C12: a transport failure ends the call at once with the Io error kind   *)
(* and nothing is retried: after a failed write no response read is        *)
(* issued, and within one call the bytes handed to the stream are one      *)
(* prefix of the request frame (the frame is written at most once) and     *)
(* the response is read at most once.                                      *)
TransportFailureNotRetried ==
    /\ result.kind = "Io" => pc = "idle"
    /\ result.why = "write" =>
           /\ result.kind = "Io"
           /\ reads = 0
           /\ nread = -1
           /\ response = <<>>
           /\ ~flushed
    /\ result.why \in {"read", "WouldBlock"} =>
           /\ result.kind = "Io"
           /\ reads = 1
           /\ wire = request
    /\ reads <= 1
    /\ reads = 1 => pc \in {"idle", "panicked"}
    /\ sent <= Len(request)
    /\ wire = SubSeq(request, 1, sent)

TransportFailureWitness ==
    /\ pc = "idle"
    /\ op = "put"
    /\ result = Io("write")
    /\ 0 < sent
    /\ sent < Len(request)
    /\ reads = 0

(* C13: only write() sends a WRITE frame: the drain sends nothing, and     *)
(* what put, get or delete hand to the stream is one frame of their own    *)
(* operation tag with nothing after it, so no 0x04 frame leaves the        *)
(* client unless the caller invokes write().                               *)
\* the length of the frame whose header is read back as q
FrameLen(q) ==
    IF q.op = OP_WRITE THEN 2
    ELSE IF q.op = OP_PUT THEN 10 + Len(q.key) + Len(q.value)
    ELSE 6 + Len(q.key)

OnlyWriteSendsWrite ==
    /\ op = "drain" => wire = <<>>
    /\ (op \in {"put", "get", "delete"} /\ wire # <<>>) =>
           /\ wire[1] # OP_WRITE
           /\ pc \in {"flushing", "reading"} => ParseRequest(wire).complete
           /\ ParseRequest(wire).complete =>
                  Len(wire) = FrameLen(ParseRequest(wire))
    /\ (wire # <<>> /\ wire[1] = OP_WRITE) => op = "write"

OnlyWriteSendsWriteWitness ==
    /\ pc = "idle"
    /\ op = "put"
    /\ result = OkUnit
    /\ wire = request
    /\ ParseRequest(wire).op = OP_PUT
    /\ Len(wire) = FrameLen(ParseRequest(wire))

(* C14: the drain terminates: when the peer sends nothing more, the loop   *)
(* reads the buffered bytes, ends at the first read that returns           *)
(* end-of-data or would-block (nothing is left buffered then), and         *)
(* check_additional_messages returns.                                      *)
DrainLoopEnds ==
    /\ (op = "drain" /\ drainRead \in {"eof", "wouldblock"}) =>
           pc # "drain_loop"
    /\ (pc = "drain_restore" /\ drainRead \in {"eof", "wouldblock"}) =>
           inbuf = <<>>

DrainTerminates ==
    /\ []DrainLoopEnds
    /\ (pc = "drain_loop") ~> (pc = "idle" /\ op = "drain")

\* what does hold: the loop ends as described and the drain returns
\* whenever set_nonblocking(true) has taken effect
DrainTerminatesNonblocking ==
    /\ []DrainLoopEnds
    /\ (pc = "drain_loop" /\ ~blocking) ~> (pc = "idle" /\ op = "drain")

(* C15: a read error other than would-block ends the drain loop at that    *)
(* read and the drain returns normally: the method's result is never an    *)
(* error or a panic, after the error only the mode is restored and no      *)
(* byte is read any more, and nothing the drain reads is ever taken as a   *)
(* response frame (no response, no status, no count of a response read).   *)
DrainErrorInv ==
    /\ op = "drain" =>
           /\ result \in {NoResult, OkUnit}
           /\ pc # "panicked"
           /\ response = <<>>
           /\ nread = -1
           /\ reads = 0
    /\ (op = "drain" /\ drainRead = "error") => pc \in {"drain_restore", "idle"}

DrainErrorStep ==
    pc = "drain_restore" =>
        /\ Len(inbuf') >= Len(inbuf)
        /\ drainRead' = drainRead
        /\ pc' = "drain_restore" \/ (pc' = "idle" /\ result' = OkUnit)

DrainErrorEndsDrain == []DrainErrorInv /\ [][DrainErrorStep]_vars

DrainErrorWitness ==
    /\ pc = "idle"
    /\ op = "drain"
    /\ drainRead = "error"
    /\ result = OkUnit
    /\ inbuf # <<>>

(* C16: a response that reaches the client in more than one read chunk     *)
(* (longer than the 4096-byte buffer, or split by the transport) is cut:   *)
(* the call returns on the first chunk alone and the rest stays in the     *)
(* stream; starting the next call discards nothing, so its read takes      *)
(* those leftover bytes as its response and their first byte as status.    *)
\* the one read of a call returns: what it takes and what it leaves
FirstChunkOnly ==
    (pc = "reading" /\ pc' # "reading" /\ nread' > 0) =>
        LET n == IF Len(inbuf) < BUF_SIZE THEN Len(inbuf) ELSE BUF_SIZE
        IN  /\ nread' = n
            /\ response' = SubSeq(inbuf, 1, n)
            /\ inbuf' = SubSeq(inbuf, n + 1, Len(inbuf))
            /\ reads' = 1
            /\ pc' = "idle"
            /\ inbuf[1] = STATUS_ERROR => result'.kind = "OperationFailed"
            /\ inbuf[1] = STATUS_SUCCESS => result'.kind = "Ok"

\* outside of a read, bytes waiting in the stream stay at its front
LeftoverKept ==
    pc \in {"idle", "sending", "flushing"} /\ pc' # "drain_loop" =>
        /\ Len(inbuf') >= Len(inbuf)
        /\ SubSeq(inbuf', 1, Len(inbuf)) = inbuf

LeftoverIsNextResponse == [][FirstChunkOnly /\ LeftoverKept]_vars

LeftoverWitness ==
    /\ pc = "idle"
    /\ op = "get"
    /\ nread = BUF_SIZE
    /\ Len(result.bytes) = BUF_SIZE - 1
    /\ result.kind = "Ok"
    /\ inbuf = <<0>>

(* C17: every call eventually returns when the peer takes the request      *)
(* bytes and then sends a byte or closes; and with nothing buffered and    *)
(* the peer neither sending nor closing, the call stays in its response    *)
(* read (there is no timeout): short of a failure of the stream, it        *)
(* leaves the read only once the peer has sent or closed.                  *)
InCall == pc \in {"sending", "flushing", "reading"}

CallReturns == InCall ~> (pc = "idle")

WaitsForPeer ==
    (pc = "reading" /\ inbuf = <<>> /\ ~closed) =>
        pc' = "reading" \/ result'.why = "read"

CallReturnsOrWaits == CallReturns /\ [][WaitsForPeer]_vars

\* what does hold: the call waits whenever the socket is in blocking mode
CallReturnsOrWaitsBlocking == CallReturns /\ [][blocking => WaitsForPeer]_vars

(* C18: every read of the drain is issued with the transport in            *)
(* non-blocking mode, also when set_nonblocking(true) failed: while the    *)
(* drain loop runs the socket is never blocking, so no read of the loop    *)
(* waits for the peer.                                                     *)
DrainReadsNonblocking == pc = "drain_loop" => ~blocking

(* C19: the session keeps no failure state: whatever earlier calls         *)
(* returned (a transport, protocol or application error included), put,    *)
(* get, delete and write can be called again on the idle session, and a    *)
(* call made after a failure writes its whole request frame and issues     *)
(* its response read like any other.                                       *)
NeverRefuses ==
    /\ pc = "idle" =>
           /\ ENABLED UserGet
           /\ ENABLED UserPut
           /\ ENABLED UserDelete
           /\ ENABLED UserWrite
    /\ (failed /\ op \in Methods /\ pc \in {"flushing", "reading"}) =>
           /\ request # <<>>
           /\ wire = request
           /\ result = NoResult
    /\ (failed /\ op \in Methods /\ reads = 1) => wire = request

NeverRefusesWitness ==
    /\ failed
    /\ pc = "idle"
    /\ op = "get"
    /\ wire = request
    /\ reads = 1
    /\ result.kind = "Ok"

=============================================================================
